---- MODULE Spec2Model ----
(***************************************************************************)
(* Model of the summary / comparison pipeline of src/pages/summary.py and   *)
(* src/pages/comparison.py (and the classifier of src/compare.py).          *)
(*                                                                         *)
(* Cells.  A DataFrame cell is Null (None / NaN), Num(n) or Str(s).         *)
(* Numbers are exact decimals counted in units of 1e-5 (Unit), so that      *)
(* round(4) is a rounding to a multiple of 10 units; binary floating point  *)
(* is not modelled.  Thresholds are counted in thousandths (the slider's    *)
(* step).                                                                   *)
(*                                                                         *)
(* Tables.  groupby(...) sorts its keys, so the rows of an aggregate table  *)
(* are determined by the key -> row mapping; a table is modelled as that    *)
(* mapping together with its list of numeric columns.                       *)
(*                                                                         *)
(* Specifications.  Spec is the comparison page (update_comparison),        *)
(* SpecSummary the summary page (update_summary) over datasets with and     *)
(* without an Error and a Currency column, SpecPartition the summary page   *)
(* over four-record datasets, SpecClassify the classifier functions over    *)
(* frames with up to MaxRows rows, SpecFormat format_numeric_column applied *)
(* twice to columns of up to MaxColumnLen values.                           *)
(***************************************************************************)
EXTENDS Integers, Sequences, FiniteSets, TLC

VARIABLES
    data1,        \* dcc.Store "stored-data" / "stored-data1": [loaded, records]
    data2,        \* dcc.Store "stored-data2"
    threshold,    \* value of "precision-slider", in thousandths
    pc,           \* "idle" before a callback has run, else the callback that ran
    sum1,         \* outcome of generate_summary on the first DataFrame
    sum2,         \* outcome of generate_summary on the second DataFrame
    cmp,          \* outcome of compare_summaries
    stdout,       \* lines printed by generate_summary
    content       \* what the callback handed to the page

vars == <<data1, data2, threshold, pc, sum1, sum2, cmp, stdout, content>>

----------------------------------------------------------------------------
(* Bounds of the model *)

MaxRecords == 3
MaxRecordsCmp == 2
MaxRecordsPart == 4
MaxRows == 21
MaxColumnLen == 3

----------------------------------------------------------------------------
(* Cells *)

Null == [kind |-> "null"]
Num(n) == [kind |-> "num", n |-> n]
Str(s) == [kind |-> "str", s |-> s]

\* the '' that format_numeric_column puts in place of a zero
Blank == Str("")

IsNum(c) == c.kind = "num"

\* Series.notna(): None and NaN are missing, '' is not
NotNa(c) == c # Null

Abs(n) == IF n < 0 THEN -n ELSE n

\* One unit is 1e-5; 1.0 is Unit units.
Unit == 100000

\* Slider domain of comparison.py, in thousandths
SliderMin == 1
SliderMax == 100
DefaultThreshold == 10

\* Default of identify_categories' threshold parameter
CategoryThreshold == 20

ReservedColumns == {"Currency", "Error"}

\* Column order of the modelled schema (a DataFrame keeps its columns in order)
ColumnOrder == <<"Region", "Code", "Amt", "Currency", "Error">>

----------------------------------------------------------------------------
(* DataFrame construction: pd.DataFrame(data) from a list of records *)

Range(s) == {s[i] : i \in DOMAIN s}

\* columns are the keys found in the records; no record, no column
DataFrame(records) ==
    [columns |-> IF records = <<>> THEN <<>>
                 ELSE SelectSeq(ColumnOrder, LAMBDA c : c \in DOMAIN records[1]),
     rows |-> records]

ColumnSet(df) == Range(df.columns)

\* Series.nunique(): number of distinct non-missing values
NUnique(df, col) == Cardinality({df.rows[i][col] : i \in DOMAIN df.rows} \ {Null})

\* dtype inference of a column built from records: numeric when every value
\* that is present is a number and at least one is present; a column of None
\* only, or one holding text, has dtype object.
IsNumericDtype(df, col) ==
    /\ \E i \in DOMAIN df.rows : IsNum(df.rows[i][col])
    /\ \A i \in DOMAIN df.rows : df.rows[i][col] = Null \/ IsNum(df.rows[i][col])

----------------------------------------------------------------------------
(* Classification: summary.py lines 10-23, compare.py lines 8-16 *)

\* the test of identify_categories with <= in place of <
IdentifyCategoriesLe(df, thr) ==
    SelectSeq(df.columns,
              LAMBDA col : col \notin ReservedColumns /\ NUnique(df, col) <= thr)

\* summary.py identify_categories
IdentifyCategories(df, thr) ==
    SelectSeq(df.columns,
              LAMBDA col : col \notin ReservedColumns /\ NUnique(df, col) < thr)

\* compare.py identify_categories: the same test written as a loop that
\* appends to a list, column by column
RECURSIVE IdentifyCategoriesLoop(_, _, _, _)
IdentifyCategoriesLoop(df, thr, i, categories) ==
    IF i > Len(df.columns) THEN categories
    ELSE LET col == df.columns[i]
             unique_count == NUnique(df, col)
         IN  IF col \notin ReservedColumns /\ unique_count < thr
             THEN IdentifyCategoriesLoop(df, thr, i + 1, Append(categories, col))
             ELSE IdentifyCategoriesLoop(df, thr, i + 1, categories)

CompareIdentifyCategories(df, thr) == IdentifyCategoriesLoop(df, thr, 1, <<>>)

\* summary.py get_numeric_columns
GetNumericColumns(df) ==
    SelectSeq(SelectSeq(df.columns, LAMBDA col : IsNumericDtype(df, col)),
              LAMBDA col : col \notin ReservedColumns)

\* summary.py identify_single_value_categories
IdentifySingleValueCategories(df, categories) ==
    {cat \in Range(categories) : NUnique(df, cat) = 1}

----------------------------------------------------------------------------
(* Formatting: summary.py lines 25-28 *)

\* Series.round(4) on a value counted in 1e-5 units: to the nearest multiple
\* of 10 units, a tie going to the even multiple
Round4(n) ==
    LET q == n \div 10
        r == n % 10
    IN  IF r < 5 THEN 10 * q
        ELSE IF r > 5 THEN 10 * (q + 1)
        ELSE IF q % 2 = 0 THEN 10 * q ELSE 10 * (q + 1)

\* one value through format_numeric_column: rounded, and '' when the rounded
\* value is zero
FormatValue(n) == IF Round4(n) = 0 THEN Blank ELSE Num(Round4(n))

\* format_numeric_column on a column of numbers
FormatNumericColumn(column) == [k \in DOMAIN column |-> FormatValue(column[k])]

----------------------------------------------------------------------------
(* Grouping: DataFrame.groupby(by) with the defaults dropna=True, sort=True *)

KeyOf(df, i, by) == [j \in DOMAIN by |-> df.rows[i][by[j]]]

\* rows with a missing value in a grouping column belong to no group
Grouped(df, by) ==
    {i \in DOMAIN df.rows : \A j \in DOMAIN by : NotNa(df.rows[i][by[j]])}

GroupKeys(df, by) == {KeyOf(df, i, by) : i \in Grouped(df, by)}

GroupRows(df, by, key) == {i \in Grouped(df, by) : KeyOf(df, i, by) = key}

\* 'sum' skips missing values
RECURSIVE SumRows(_, _, _)
SumRows(df, col, idx) ==
    IF idx = {} THEN 0
    ELSE LET i == CHOOSE j \in idx : TRUE
             c == df.rows[i][col]
         IN  (IF IsNum(c) THEN c.n ELSE 0) + SumRows(df, col, idx \ {i})

\* groupby(by).agg({col: 'sum'}) for one column
GroupSum(df, by, col) ==
    [key \in GroupKeys(df, by) |-> SumRows(df, col, GroupRows(df, by, key))]

\* groupby(by).size()
GroupSize(df, by) ==
    [key \in GroupKeys(df, by) |-> Cardinality(GroupRows(df, by, key))]

----------------------------------------------------------------------------
(* generate_summary: summary.py lines 30-96 *)

Returned(summaries, printed) ==
    [raised |-> "none", summaries |-> summaries, printed |-> printed]

\* an exception leaves generate_summary: nothing is returned
Raised(exc, printed) ==
    [raised |-> exc, summaries |-> <<>>, printed |-> printed]

\* lines 40-43: the rows whose Error is not missing, as their own table
ErrorRows(df) == SelectSeq(df.rows, LAMBDA r : NotNa(r["Error"]))

ErrorSummaries(df) ==
    IF "Error" \in ColumnSet(df) /\ ErrorRows(df) # <<>>
    THEN [t \in {"errors"} |-> ErrorRows(df)]
    ELSE <<>>

\* lines 47-53.  groupby raises KeyError when the frame has no Currency
\* column.  Otherwise agg_dict names every single-value category, which is
\* also a grouping column, so the aggregate carries it both as an index level
\* and as a column and reset_index() raises ValueError ("cannot insert ...,
\* already exists").  Lines 56-62 are never reached.
BaseSummary(df, single_value_cats, numeric_cols) ==
    IF "Currency" \notin ColumnSet(df) THEN "KeyError" ELSE "ValueError"

\* lines 71-90 for one category: the table, or the exception caught at line 92.
\*   no Currency column: groupby raises KeyError;
\*   no numeric column: agg({}) has nothing to concatenate and raises ValueError;
\*   the category is itself numeric: agg_dict names the grouping column, so
\*   reset_index() raises ValueError as in the base table.
\* Otherwise every sum goes through format_numeric_column before it is stored.
CategorySummary(df, category, numeric_cols) ==
    LET by == <<category, "Currency">>
        size == GroupSize(df, by)
    IN  IF "Currency" \notin ColumnSet(df)
        THEN [ok |-> FALSE, reason |-> "KeyError: 'Currency'"]
        ELSE IF numeric_cols = <<>>
        THEN [ok |-> FALSE, reason |-> "ValueError: No objects to concatenate"]
        ELSE IF category \in Range(numeric_cols)
        THEN [ok |-> FALSE, reason |-> "ValueError: cannot insert, already exists"]
        ELSE [ok |-> TRUE,
              table |->
                [numeric |-> numeric_cols,
                 rows |-> [key \in GroupKeys(df, by) |->
                            [count |-> size[key],
                             sum |-> [col \in Range(numeric_cols) |->
                                 FormatNumericColumn(GroupSum(df, by, col))[key]]]]]]

\* line 93
Message(category, reason) == [category |-> category, reason |-> reason]

\* the loop with an except block that continues without printing
RECURSIVE CategoryLoopSilent(_, _, _, _, _, _)
CategoryLoopSilent(df, remaining_cats, numeric_cols, i, summaries, printed) ==
    IF i > Len(remaining_cats) THEN Returned(summaries, printed)
    ELSE LET category == remaining_cats[i]
             out == CategorySummary(df, category, numeric_cols)
         IN  IF df.rows # <<>> /\ out.ok
             THEN CategoryLoopSilent(df, remaining_cats, numeric_cols, i + 1,
                                     summaries @@ [t \in {category} |-> out.table],
                                     printed)
             ELSE CategoryLoopSilent(df, remaining_cats, numeric_cols, i + 1,
                                     summaries, printed)

\* lines 65-94: the loop over the remaining categories
RECURSIVE CategoryLoop(_, _, _, _, _, _)
CategoryLoop(df, remaining_cats, numeric_cols, i, summaries, printed) ==
    IF i > Len(remaining_cats) THEN Returned(summaries, printed)
    ELSE LET category == remaining_cats[i]
             out == CategorySummary(df, category, numeric_cols)
         IN  IF df.rows = <<>>
             THEN CategoryLoop(df, remaining_cats, numeric_cols, i + 1,
                               summaries, printed)
             ELSE IF out.ok
             THEN CategoryLoop(df, remaining_cats, numeric_cols, i + 1,
                               summaries @@ [t \in {category} |-> out.table],
                               printed)
             ELSE CategoryLoop(df, remaining_cats, numeric_cols, i + 1,
                               summaries,
                               Append(printed, Message(category, out.reason)))

\* line 96: what the caller receives, the dict of tables and nothing beside it
ReturnValue(out) == <<out.summaries>>

GenerateSummary(df) ==
    LET categories == IdentifyCategories(df, CategoryThreshold)
        numeric_cols == GetNumericColumns(df)
        single_value_cats == IdentifySingleValueCategories(df, categories)
        remaining_cats ==
            SelectSeq(categories, LAMBDA cat : cat \notin single_value_cats)
    IN  IF single_value_cats # {}
        THEN Raised(BaseSummary(df, single_value_cats, numeric_cols), <<>>)
        ELSE CategoryLoop(df, remaining_cats, numeric_cols, 1,
                          ErrorSummaries(df), <<>>)

----------------------------------------------------------------------------
(* compare_summaries: comparison.py lines 11-81 *)

\* 1 / 1e-10 counted in units: one unit is EpsInv times the clip bound
EpsInv == 100000

\* |b - a| / max(|a|, 1e-10) > thr / 1000, for a and b in units, computed
\* without a product that leaves the 32-bit integers:
\*   a # 0:  1000 * d > thr * |a|       <=>  d > (thr * |a|) \div 1000
\*   a = 0:  d * EpsInv * 1000 > thr    <=>  d > thr \div (EpsInv * 1000)
RelDiffExceeds(a, b, thr) ==
    LET d == Abs(b - a)
        m == Abs(a)
    IN  IF m = 0
        THEN d > thr \div (EpsInv * 1000)
        ELSE d > thr * (m \div 1000) + (thr * (m % 1000)) \div 1000

\* the value of the _diff column as a fraction; den = 0 stands for the clip
\* bound 1e-10
RelDiff(a, b) == [num |-> Abs(b - a), den |-> Abs(a)]

\* the keys of the outer merge that carry values of both tables
CommonKeys(t1, t2) == DOMAIN t1.rows \cap DOMAIN t2.rows

\* lines 50-53 on one column.  A '' left by format_numeric_column makes the
\* column an object column: abs() of the first table's column raises on any
\* '' in it, and the subtraction raises where both values are present and one
\* of them is ''.
DiffRaises(t1, t2, col) ==
    \/ \E k \in DOMAIN t1.rows : t1.rows[k].sum[col] = Blank
    \/ \E k \in CommonKeys(t1, t2) : t2.rows[k].sum[col] = Blank

\* lines 56-58: the rows whose relative difference exceeds the threshold; a
\* key of one table only has no difference (NaN), and NaN > threshold is false
SignificantKeys(t1, t2, col, thr) ==
    {k \in CommonKeys(t1, t2) :
        RelDiffExceeds(t1.rows[k].sum[col].n, t2.rows[k].sum[col].n, thr)}

SignificantDiffs(t1, t2, col, thr) ==
    [k \in SignificantKeys(t1, t2, col, thr) |->
        [df1 |-> t1.rows[k].sum[col],
         df2 |-> t2.rows[k].sum[col],
         diff |-> RelDiff(t1.rows[k].sum[col].n, t2.rows[k].sum[col].n)]]

\* lines 44-64: the loop over the numeric columns of the first table
RECURSIVE ColumnLoop(_, _, _, _, _)
ColumnLoop(t1, t2, thr, i, category_diffs) ==
    IF i > Len(t1.numeric) THEN [raised |-> "none", diffs |-> category_diffs]
    ELSE LET col == t1.numeric[i]
         IN  IF col \notin Range(t2.numeric)
             THEN [raised |-> "KeyError", diffs |-> <<>>]
             ELSE IF DiffRaises(t1, t2, col)
             THEN [raised |-> "TypeError", diffs |-> <<>>]
             ELSE IF SignificantKeys(t1, t2, col, thr) # {}
             THEN ColumnLoop(t1, t2, thr, i + 1,
                      Append(category_diffs,
                             [column |-> col,
                              differences |-> SignificantDiffs(t1, t2, col, thr)]))
             ELSE ColumnLoop(t1, t2, thr, i + 1, category_diffs)

\* lines 24-76 for one table name
CategoryDiffs(s1, s2, category, thr) ==
    IF category \in DOMAIN s1 /\ category \in DOMAIN s2
    THEN IF category = "base"
         \* merge(on=['base', 'Currency']): the table has no column 'base'
         THEN [raised |-> "KeyError", diffs |-> <<>>]
         ELSE ColumnLoop(s1[category], s2[category], thr, 1, <<>>)
    ELSE IF category \in DOMAIN s1
    THEN [raised |-> "none",
          diffs |-> <<[message |-> "only present in first dataset",
                       data |-> s1[category]]>>]
    ELSE [raised |-> "none",
          diffs |-> <<[message |-> "only present in second dataset",
                       data |-> s2[category]]>>]

AllCategories(s1, s2) == (DOMAIN s1 \cup DOMAIN s2) \ {"errors"}

\* The outcomes of compare_summaries.  The tables are visited in the order of
\* a Python set, which is not fixed: when several tables raise, either
\* exception may be the one that leaves the function.
CompareSummaries(s1, s2, thr) ==
    LET all == AllCategories(s1, s2)
        out == [c \in all |-> CategoryDiffs(s1, s2, c, thr)]
        failing == {c \in all : out[c].raised # "none"}
    IN  IF failing # {}
        THEN {[raised |-> out[c].raised, differences |-> <<>>] : c \in failing}
        ELSE {[raised |-> "none",
               differences |-> [c \in {x \in all : out[x].diffs # <<>>} |->
                                   out[c].diffs]]}

----------------------------------------------------------------------------
(* The stores and the callbacks *)

NotLoaded == [loaded |-> FALSE]
Loaded(records) == [loaded |-> TRUE, records |-> records]

NotRun == [raised |-> "not run", summaries |-> <<>>, printed |-> <<>>]
NotCompared == [raised |-> "not run", differences |-> <<>>]

\* the slider positions the model moves the slider to
SliderChoices == {DefaultThreshold, 2 * DefaultThreshold}

\* comparison.py update_comparison (lines 158-173), fired by the slider or a
\* store.  stdout holds what this run printed.
UpdateComparison ==
    \E t \in SliderChoices :
        /\ t \in SliderMin..SliderMax
        /\ threshold' = t
        /\ pc' = "update_comparison"
        /\ UNCHANGED <<data1, data2>>
        /\ IF ~data1.loaded \/ ~data2.loaded
           THEN /\ content' = "Please load both datasets"
                /\ sum1' = NotRun /\ sum2' = NotRun /\ cmp' = NotCompared
                /\ stdout' = <<>>
           ELSE LET s1 == GenerateSummary(DataFrame(data1.records))
                    s2 == GenerateSummary(DataFrame(data2.records))
                IN  IF s1.raised # "none"
                    THEN /\ sum1' = s1 /\ sum2' = NotRun /\ cmp' = NotCompared
                         /\ stdout' = s1.printed
                         /\ content' = "callback error"
                    ELSE IF s2.raised # "none"
                    THEN /\ sum1' = s1 /\ sum2' = s2 /\ cmp' = NotCompared
                         /\ stdout' = s1.printed \o s2.printed
                         /\ content' = "callback error"
                    ELSE /\ sum1' = s1 /\ sum2' = s2
                         /\ stdout' = s1.printed \o s2.printed
                         /\ cmp' \in CompareSummaries(s1.summaries, s2.summaries, t)
                         /\ content' = IF cmp'.raised = "none"
                                       THEN "DataFrame Comparison"
                                       ELSE "callback error"

\* summary.py update_summary (lines 187-194), fired by the store
UpdateSummary ==
    /\ pc' = "update_summary"
    /\ UNCHANGED <<data1, data2, threshold, sum2, cmp>>
    /\ IF ~data1.loaded
       THEN /\ content' = "No data loaded"
            /\ sum1' = NotRun
            /\ stdout' = <<>>
       ELSE LET s1 == GenerateSummary(DataFrame(data1.records))
            IN  /\ sum1' = s1
                /\ stdout' = s1.printed
                /\ content' = IF s1.raised = "none"
                              THEN "DataFrame Summary"
                              ELSE "callback error"

----------------------------------------------------------------------------
(* Inputs *)

SeqsUpTo(S, n) == UNION {[1..k -> S] : k \in 0..n}

Stores(S, n) == {NotLoaded} \cup {Loaded(r) : r \in SeqsUpTo(S, n)}

\* comparison page: three regions, one currency, amounts 0, 0.00006, 100,
\* 101 and 102
CmpRecords ==
    [Region : {Str("west"), Str("east"), Str("north")},
     Amt : {Num(0), Num(6), Num(100 * Unit), Num(101 * Unit), Num(102 * Unit)},
     Currency : {Str("USD")}]

\* summary page: records with and without an Error and a Currency column
SummaryRecords ==
    [Region : {Str("west"), Str("east")},
     Amt : {Num(4), Num(6)},
     Currency : {Str("USD"), Null},
     Error : {Null, Str("timeout"), Str("")}]

NoErrorRecords ==
    [Region : {Str("west"), Str("east")},
     Amt : {Num(4), Num(6), Null},
     Currency : {Str("USD"), Null}]

NoCurrencyRecords ==
    [Region : {Str("west"), Str("east")},
     Amt : {Num(4), Num(6)},
     Error : {Null, Str("timeout")}]

InitOutputs ==
    /\ threshold = DefaultThreshold
    /\ pc = "idle"
    /\ sum1 = NotRun
    /\ sum2 = NotRun
    /\ cmp = NotCompared
    /\ stdout = <<>>
    /\ content = ""

Init ==
    /\ data1 \in Stores(CmpRecords, MaxRecordsCmp)
    /\ data2 \in Stores(CmpRecords, MaxRecordsCmp)
    /\ InitOutputs

Next == UpdateComparison

Spec == Init /\ [][Next]_vars

InitSummary ==
    /\ data1 \in Stores(SummaryRecords, MaxRecords)
                 \cup Stores(NoErrorRecords, MaxRecords)
                 \cup Stores(NoCurrencyRecords, MaxRecords)
    /\ data2 = NotLoaded
    /\ InitOutputs

NextSummary == UpdateSummary

SpecSummary == InitSummary /\ [][NextSummary]_vars

\* partitions: four-record datasets over two regions and two small amounts
PartRecords ==
    [Region : {Str("west"), Str("east")},
     Amt : {Num(4), Num(6)},
     Currency : {Str("USD")}]

InitPartition ==
    /\ data1 \in Stores(PartRecords, MaxRecordsPart)
    /\ data2 = NotLoaded
    /\ InitOutputs

SpecPartition == InitPartition /\ [][NextSummary]_vars

\* classifier inputs: n rows; Code takes min(n, m) distinct values, Amt n of
\* them; Currency and Error hold text or numbers
ClassifyData(n, m, regions, numericReserved) ==
    [i \in 1..n |->
        [Region |-> Str(IF i % regions = 0 THEN "west" ELSE "east"),
         Code |-> Num(i % m),
         Amt |-> Num(i),
         Currency |-> IF numericReserved THEN Num(840 + (i % 2)) ELSE Str("USD"),
         Error |-> IF numericReserved THEN Num(i % 3) ELSE Null]]

ClassifyInputs ==
    {ClassifyData(n, m, r, b) :
        n \in 0..MaxRows, m \in 1..MaxRows, r \in 1..2, b \in BOOLEAN}

\* the classifier calls of generate_summary (summary.py lines 35-36) and of
\* compare.py line 101, on one DataFrame
Classify ==
    /\ pc = "idle"
    /\ data1.loaded
    /\ pc' = "classify"
    /\ content' =
         LET df == DataFrame(data1.records)
         IN  [categories |-> IdentifyCategories(df, CategoryThreshold),
              numeric_cols |-> GetNumericColumns(df),
              compare_categories |-> CompareIdentifyCategories(df, CategoryThreshold)]
    /\ UNCHANGED <<data1, data2, threshold, sum1, sum2, cmp, stdout>>

InitClassify ==
    /\ data1 \in {Loaded(d) : d \in ClassifyInputs}
    /\ data2 = NotLoaded
    /\ InitOutputs

NextClassify == Classify

SpecClassify == InitClassify /\ [][NextClassify]_vars

----------------------------------------------------------------------------
(* Reference quantities used by the properties *)

df1 == DataFrame(data1.records)
df2 == DataFrame(data2.records)

SummaryDone == pc = "update_summary" /\ data1.loaded
SummaryReturned == SummaryDone /\ sum1.raised = "none"

\* the tables of a summary other than the raw error rows
AggregateTables(summaries) == DOMAIN summaries \ {"errors"}

\* rows of a group that carry no error marker (Error missing or no such column)
EligibleIn(df, idx) ==
    {i \in idx : "Error" \notin ColumnSet(df) \/ df.rows[i]["Error"] = Null}

\* the number a stored cell stands for: '' is how a zero is stored
ValueOf(cell) == IF cell = Blank THEN 0 ELSE cell.n

Categories1 == IdentifyCategories(df1, CategoryThreshold)
Numeric1 == GetNumericColumns(df1)
Single1 == IdentifySingleValueCategories(df1, Categories1)

----------------------------------------------------------------------------
(* C1 *)

\* C1: a record whose Error is not null contributes to no aggregate table:
\* in every table other than 'errors' and for every key, count and every sum
\* are those of the records of the group whose Error is null or absent (the
\* sums compared as the table stores them, rounded to 4 decimals).
C1_ErrorIsolation ==
    SummaryReturned =>
        \A t \in AggregateTables(sum1.summaries) :
            \A key \in DOMAIN sum1.summaries[t].rows :
                LET eligible == EligibleIn(df1, GroupRows(df1, <<t, "Currency">>, key))
                    row == sum1.summaries[t].rows[key]
                IN  /\ row.count = Cardinality(eligible)
                    /\ \A col \in DOMAIN row.sum :
                           ValueOf(row.sum[col]) = Round4(SumRows(df1, col, eligible))

----------------------------------------------------------------------------
(* C2 *)

ComparisonDone == pc = "update_comparison" /\ data1.loaded /\ data2.loaded
ComparisonReturned == ComparisonDone /\ cmp.raised = "none"

CommonTables == AggregateTables(sum1.summaries) \cap AggregateTables(sum2.summaries)

\* the key appears in some entry that compare_summaries returned for the table
Reported(t, key) ==
    /\ t \in DOMAIN cmp.differences
    /\ \E i \in DOMAIN cmp.differences[t] :
           /\ "differences" \in DOMAIN cmp.differences[t][i]
           /\ key \in DOMAIN cmp.differences[t][i].differences

\* C2: for a table of both summaries, every key of the first summary only is
\* reported (as removed) and every key of the second summary only is reported
\* (as new).
C2_NewAndRemovedReported ==
    ComparisonReturned =>
        \A t \in CommonTables :
            LET keys1 == DOMAIN sum1.summaries[t].rows
                keys2 == DOMAIN sum2.summaries[t].rows
            IN  /\ \A key \in keys1 \ keys2 : Reported(t, key)
                /\ \A key \in keys2 \ keys1 : Reported(t, key)

----------------------------------------------------------------------------
(* C3 *)

\* the maximum over the numeric fields of the relative difference exceeds thr
MaxRelDiffExceeds(t, key, thr) ==
    \E col \in Range(sum1.summaries[t].numeric) \cap Range(sum2.summaries[t].numeric) :
        RelDiffExceeds(ValueOf(sum1.summaries[t].rows[key].sum[col]),
                       ValueOf(sum2.summaries[t].rows[key].sum[col]), thr)

\* C3: a key of both summaries is retained in the output iff the maximum
\* relative difference over the numeric fields is strictly greater than the
\* threshold.
C3_StrictThreshold ==
    (ComparisonDone /\ sum1.raised = "none" /\ sum2.raised = "none") =>
        \A t \in CommonTables :
            \A key \in CommonKeys(sum1.summaries[t], sum2.summaries[t]) :
                Reported(t, key) <=> MaxRelDiffExceeds(t, key, threshold)

----------------------------------------------------------------------------
(* C4 *)

\* the table holds, for every key of the grouping, the number of rows of the
\* group and the sum of each numeric field
HoldsCountAndSums(table, df, by, numeric_cols) ==
    /\ DOMAIN table.rows = GroupKeys(df, by)
    /\ \A key \in GroupKeys(df, by) :
           /\ table.rows[key].count = Cardinality(GroupRows(df, by, key))
           /\ \A col \in Range(numeric_cols) :
                  table.rows[key].sum[col] =
                      Num(SumRows(df, col, GroupRows(df, by, key)))

\* C4: single-value categories are folded into one 'base' table keyed by
\* (Currency, single-value category values); every category with two or more
\* distinct values has its own table keyed by (category value, Currency); no
\* single-value category has a table of its own; each row holds count and sums.
C4_SingleValueFolding ==
    SummaryDone =>
        /\ sum1.raised = "none"
        /\ Single1 # {} =>
               /\ "base" \in DOMAIN sum1.summaries
               /\ HoldsCountAndSums(sum1.summaries["base"], df1,
                      <<"Currency">> \o SelectSeq(Categories1, LAMBDA c : c \in Single1),
                      Numeric1)
        /\ \A cat \in Range(Categories1) :
               IF NUnique(df1, cat) >= 2
               THEN /\ cat \in DOMAIN sum1.summaries
                    /\ HoldsCountAndSums(sum1.summaries[cat], df1,
                           <<cat, "Currency">>, Numeric1)
               ELSE cat \in Single1 => cat \notin DOMAIN sum1.summaries

----------------------------------------------------------------------------
(* C5 *)

\* C5: with threshold 20, identify_categories (both versions) and
\* get_numeric_columns never return Currency or Error, and every field
\* returned as a category has strictly fewer than 20 distinct values.
C5_ClassifierExcludesReserved ==
    pc = "classify" =>
        /\ \A c \in Range(content.categories) \cup Range(content.numeric_cols)
                    \cup Range(content.compare_categories) :
               c \notin {"Currency", "Error"}
        /\ \A c \in Range(content.categories) \cup Range(content.compare_categories) :
               NUnique(df1, c) < 20

\* a column with exactly 20 distinct values is left out while another column
\* is returned, and a numeric Currency column is left out of the numeric ones
C5_Witness ==
    /\ pc = "classify"
    /\ NUnique(df1, "Code") = 20
    /\ "Code" \notin Range(content.categories)
    /\ "Region" \in Range(content.categories)
    /\ IsNumericDtype(df1, "Currency")
    /\ "Amt" \in Range(content.numeric_cols)

----------------------------------------------------------------------------
(* C6 *)

\* the stored sums of a table are the plain sums of the groups
Unformatted(table, df, t) ==
    \A key \in DOMAIN table.rows :
        \A col \in DOMAIN table.rows[key].sum :
            table.rows[key].sum[col] =
                Num(SumRows(df, col, GroupRows(df, <<t, "Currency">>, key)))

\* C6: the values whose relative difference compare_summaries tests against
\* the threshold are the unrounded, un-blanked aggregate sums.
C6_CompareBeforeFormat ==
    ComparisonReturned =>
        \A t \in CommonTables :
            /\ Unformatted(sum1.summaries[t], df1, t)
            /\ Unformatted(sum2.summaries[t], df2, t)

----------------------------------------------------------------------------
(* C7 *)

\* the records whose Error is present, not null and not empty
QualifyingErrors(df) ==
    IF "Error" \in ColumnSet(df)
    THEN SelectSeq(df.rows, LAMBDA r : r["Error"] # Null /\ r["Error"] # Str(""))
    ELSE <<>>

\* C7: the 'errors' table holds exactly the records whose Error is present,
\* non-null and non-empty, and is absent when there is none.
C7_ErrorsTable ==
    SummaryReturned =>
        IF QualifyingErrors(df1) = <<>>
        THEN "errors" \notin DOMAIN sum1.summaries
        ELSE /\ "errors" \in DOMAIN sum1.summaries
             /\ sum1.summaries["errors"] = QualifyingErrors(df1)

----------------------------------------------------------------------------
(* C8 *)

\* C8: for a dataset without a Currency field generate_summary surfaces an
\* error to its caller and never returns a summary.
C8_MissingCurrencySurfaced ==
    (SummaryDone /\ df1.rows # <<>> /\ "Currency" \notin ColumnSet(df1)) =>
        sum1.raised # "none"

----------------------------------------------------------------------------
(* C9 *)

\* the categories whose try block (lines 74-90) raised
FailedCategories ==
    IF Single1 # {} \/ df1.rows = <<>> THEN {}
    ELSE {c \in Range(Categories1) : ~CategorySummary(df1, c, Numeric1).ok}

----------------------------------------------------------------------------
(* C10 *)

\* the records of the dataset at the positions idx, in order
Part(records, idx) ==
    LET RECURSIVE Pick(_)
        Pick(i) == IF i > Len(records) THEN <<>>
                   ELSE (IF i \in idx THEN <<records[i]>> ELSE <<>>) \o Pick(i + 1)
    IN  Pick(1)

\* count and sum a summary stores for a key, 0 when the table or key is absent
StoredCount(out, t, key) ==
    IF t \in DOMAIN out.summaries /\ key \in DOMAIN out.summaries[t].rows
    THEN out.summaries[t].rows[key].count ELSE 0

StoredSum(out, t, key, col) ==
    IF /\ t \in DOMAIN out.summaries
       /\ key \in DOMAIN out.summaries[t].rows
       /\ col \in DOMAIN out.summaries[t].rows[key].sum
    THEN ValueOf(out.summaries[t].rows[key].sum[col]) ELSE 0

\* C10: for every split of the records into two disjoint partitions whose
\* summaries generate_summary returns, every stored count and sum of the full
\* set is the sum of those stored for the two partitions.
C10_PartitionAdditive ==
    SummaryReturned =>
        \A idx \in SUBSET DOMAIN data1.records :
            LET p1 == GenerateSummary(DataFrame(Part(data1.records, idx)))
                p2 == GenerateSummary(DataFrame(
                          Part(data1.records, DOMAIN data1.records \ idx)))
            IN  (p1.raised = "none" /\ p2.raised = "none") =>
                    \A t \in AggregateTables(sum1.summaries) :
                        \A key \in DOMAIN sum1.summaries[t].rows :
                            /\ sum1.summaries[t].rows[key].count =
                                   StoredCount(p1, t, key) + StoredCount(p2, t, key)
                            /\ \A col \in DOMAIN sum1.summaries[t].rows[key].sum :
                                   StoredSum(sum1, t, key, col) =
                                       StoredSum(p1, t, key, col)
                                       + StoredSum(p2, t, key, col)

----------------------------------------------------------------------------
(* format_numeric_column applied to a column that may already be formatted *)

SeriesReturned(column) == [raised |-> "none", column |-> column]
SeriesRaised(exc) == [raised |-> exc, column |-> <<>>]

\* line 27, Series.round(4).  A column of numbers is rounded.  A column that
\* holds a '' has dtype object, and what round does with it depends on the
\* installed pandas, which the repository does not pin: it raises TypeError
\* (numpy's round on an object array; "Expected numeric dtype, got object
\* instead"), or it returns the column unchanged.
SeriesRound(column) ==
    IF \A k \in DOMAIN column : IsNum(column[k])
    THEN {SeriesReturned([k \in DOMAIN column |-> Num(Round4(column[k].n))])}
    ELSE {SeriesRaised("TypeError"), SeriesReturned(column)}

\* line 28, formatted.where(formatted != 0, ''): '' != 0 is true, a '' stays
SeriesWhereNonZero(formatted) ==
    [k \in DOMAIN formatted |->
        IF formatted[k] = Num(0) THEN Blank ELSE formatted[k]]

\* format_numeric_column on a Series of cells: the outcomes it may have
FormatNumericColumnSeries(column) ==
    {IF r.raised = "none" THEN SeriesReturned(SeriesWhereNonZero(r.column)) ELSE r :
        r \in SeriesRound(column)}

\* numeric columns: zeros, values that round to zero at 4 decimals (0.00004,
\* -0.00004), values that round away from zero, and values that need no rounding
ColumnValues == {Num(0), Num(4), Num(0 - 4), Num(6), Num(15), Num(12340)}

ColumnInputs == SeqsUpTo(ColumnValues, MaxColumnLen)

\* content holds the column and then the outcome of each application
InitFormat ==
    /\ data1 = NotLoaded
    /\ data2 = NotLoaded
    /\ threshold = DefaultThreshold
    /\ pc = "idle"
    /\ sum1 = NotRun
    /\ sum2 = NotRun
    /\ cmp = NotCompared
    /\ stdout = <<>>
    /\ content \in {<<SeriesReturned(c)>> : c \in ColumnInputs}

\* one call of format_numeric_column on the column obtained last; the model
\* stops after the second call
ApplyFormat ==
    /\ Len(content) <= 2
    /\ content[Len(content)].raised = "none"
    /\ \E out \in FormatNumericColumnSeries(content[Len(content)].column) :
           content' = Append(content, out)
    /\ pc' = "format_numeric_column"
    /\ UNCHANGED <<data1, data2, threshold, sum1, sum2, cmp, stdout>>

NextFormat == ApplyFormat

SpecFormat == InitFormat /\ [][NextFormat]_vars

----------------------------------------------------------------------------
(* C11 *)

FormattedTwice == pc = "format_numeric_column" /\ Len(content) = 3

\* C11: format_numeric_column is idempotent: applied to its own output it
\* succeeds and returns the column that one application returned.
C11_FormatIdempotent ==
    FormattedTwice =>
        /\ content[3].raised = "none"
        /\ content[3].column = content[2].column

----------------------------------------------------------------------------
(* C12 *)

\* the grouping of some table fails: that of the base table (lines 47-53,
\* whenever there is a single-value category) or that of a category
SomeGroupingFails ==
    df1.rows # <<>> /\ (Single1 # {} \/ FailedCategories # {})

\* the categories with two or more values whose own grouping does not fail
SoundCategories ==
    {c \in Range(Categories1) \ Single1 : CategorySummary(df1, c, Numeric1).ok}

\* C12: when the grouping of a category or of the base table fails,
\* generate_summary still returns, the failing table alone is missing, and
\* every other category has the table its own grouping produces.
C12_FailureIsolated ==
    (SummaryDone /\ SomeGroupingFails) =>
        /\ sum1.raised = "none"
        /\ \A c \in FailedCategories : c \notin DOMAIN sum1.summaries
        /\ \A t \in SoundCategories :
               /\ t \in DOMAIN sum1.summaries
               /\ sum1.summaries[t] = CategorySummary(df1, t, Numeric1).table

----------------------------------------------------------------------------
(* C13 *)

Categories2 == IdentifyCategories(df2, CategoryThreshold)
Single2 == IdentifySingleValueCategories(df2, Categories2)

\* both datasets have a single-value category, the condition of line 47 under
\* which generate_summary builds the 'base' table
BothBuildBase == Single1 # {} /\ Single2 # {}

\* C13: when both summaries are to contain the 'base' table, both hold it and
\* compare_summaries completes without error on them.
C13_BaseCompared ==
    (ComparisonDone /\ BothBuildBase) =>
        /\ sum1.raised = "none"
        /\ sum2.raised = "none"
        /\ "base" \in DOMAIN sum1.summaries \cap DOMAIN sum2.summaries
        /\ cmp.raised = "none"

----------------------------------------------------------------------------
(* C14 *)

\* the sum of a numeric field over the group of a key, before any formatting
SumA(t, key, col) == SumRows(df1, col, GroupRows(df1, <<t, "Currency">>, key))
SumB(t, key, col) == SumRows(df2, col, GroupRows(df2, <<t, "Currency">>, key))

\* C14: when a key of both summaries has sum_a exactly zero for a numeric
\* field, compare_summaries raises no error and the row is significant iff
\* sum_b is not zero.
C14_ZeroDenominatorGuarded ==
    (ComparisonDone /\ sum1.raised = "none" /\ sum2.raised = "none") =>
        \A t \in CommonTables :
            \A key \in CommonKeys(sum1.summaries[t], sum2.summaries[t]) :
                \A col \in Range(sum1.summaries[t].numeric) :
                    SumA(t, key, col) = 0 =>
                        /\ cmp.raised = "none"
                        /\ Reported(t, key) <=> SumB(t, key, col) # 0

====
